---- MODULE Spec2Model ----
(***************************************************************************)
(* The code-resolution and access-control core of filehub: the Express     *)
(* handlers over the two Mongo collections Upload (share records) and      *)
(* Workspace (pin-protected boxes holding file entries).                   *)
(*                                                                         *)
(* A collection is a sequence in insertion order, which is the order in    *)
(* which findOne / findOneAndDelete meet the documents.  A handler is one  *)
(* action; its last request and response are kept in res.  Timestamps and  *)
(* retrieval URLs of file entries are not modelled: no handler reads them. *)
(* prev is a history variable: where a specification logs its requests it  *)
(* holds the request and response that came before the one in res.         *)
(* rooms is the Room collection of the variants of the server that keep    *)
(* rooms (keyed lists with no pin) in place of boxes.                      *)
(* trace is a history variable too: where a specification traces a box it  *)
(* holds every entry uploaded to the box since its creation, in upload     *)
(* order, each marked once a removeFile has taken it out.                  *)
(*                                                                         *)
(* SpecSteps runs the upload handler of a box step by step, one step per   *)
(* await, for two requests at a time: calls holds, for each request in     *)
(* flight, the handler's position and its local copy of the box document.  *)
(***************************************************************************)
EXTENDS Integers, Sequences, FiniteSets, TLC

VARIABLES uploads, workspaces, rooms, res, prev, trace, calls

vars == <<uploads, workspaces, rooms, res, prev, trace, calls>>

(* ---------------------------- bounds ---------------------------------- *)

\* documents the store may hold: share records plus file entries of boxes
MaxDocs == 2
\* file entries the one box of SpecBox may hold
MaxBoxFiles == 4
\* values the random draw of the code generator ranges over, from CodeMin up
NumCodes == 2
\* the same for SpecBox, where four file entries can get four different codes
NumBoxCodes == 4
\* file entries the one box of SpecBatch may hold
MaxBatchFiles == 3
\* entries uploaded to the box of SpecTrace during its life
MaxTrace == 3
\* documents the store of SpecMirror may hold: share records plus room entries
MaxMirror == 3
\* file entries, stored or in flight, of SpecSteps
MaxStepFiles == 3
\* values of the random draw in SpecSteps
NumStepCodes == 2

(* ------------------------- program constants -------------------------- *)

\* Math.floor(100000 + Math.random() * 900000): the least code
CodeMin == 100000
\* the label the resolver answers with in place of a box name
MaskedLabel == "Shared File"

\* a field the request body does not carry
Undefined == "undefined"

\* box names and pins clients send
BoxNames == {"box1", MaskedLabel}
Pins == {"1234", "0000"}
\* uploader names clients send
UploaderNames == {"alice"}
\* display names of the files clients send
FileNames == {"a.txt", "b.txt"}

\* the integers Math.floor(100000 + Math.random() * 900000) yields here
RandomInts == CodeMin .. (CodeMin + NumCodes - 1)
BoxRandomInts == CodeMin .. (CodeMin + NumBoxCodes - 1)
StepRandomInts == CodeMin .. (CodeMin + NumStepCodes - 1)

\* (n).toString() of a drawn integer
generateCode(n) == ToString(n)

\* the codes clients type: every code the generator can mint
Codes == {generateCode(n) : n \in RandomInts}

\* an incoming file of a request body, before any code is attached
File(n) == [name |-> n, code |-> Undefined]

\* the file lists of request bodies
FileLists == {<<File("a.txt")>>, <<File("a.txt"), File("b.txt")>>}
\* the one-file request bodies among them
SingleFile == {files \in FileLists : Len(files) = 1}

(* --------------------------- array helpers ---------------------------- *)

\* Array.prototype.findIndex / find, Model.findOne: the first of the
\* positions that pass the test (hits), 0 when none does
FirstIndex(hits) ==
    IF hits = {} THEN 0 ELSE CHOOSE i \in hits : \A j \in hits : i <= j

\* Array.prototype.splice(i, 1), findOneAndDelete: s without position i
RemoveAt(s, i) == SubSeq(s, 1, i - 1) \o SubSeq(s, i + 1, Len(s))

\* the code fields of a file list
FileCodes(files) == {files[i].code : i \in 1..Len(files)}

RECURSIVE TotalFiles(_)
\* the number of file entries held by a sequence of boxes
TotalFiles(ws) == IF ws = <<>> THEN 0 ELSE Len(Head(ws).files) + TotalFiles(Tail(ws))

(* ------------------------------ queries ------------------------------- *)

\* Upload.findOne({ code })
UploadFindOne(ups, code) == FirstIndex({i \in 1..Len(ups) : ups[i].code = code})

\* Workspace.findOne({ boxName })
WorkspaceFindOne(ws, boxName) ==
    FirstIndex({i \in 1..Len(ws) : ws[i].boxName = boxName})

\* Workspace.findOne({ "files.code": code })
WorkspaceFindOneByFileCode(ws, code) ==
    FirstIndex({i \in 1..Len(ws) : code \in FileCodes(ws[i].files)})

(* ----------------------------- responses ------------------------------ *)

\* nfiles is files.length of the request body
NoReq == [boxName |-> Undefined, pin |-> Undefined, code |-> Undefined, nfiles |-> 0]
NoBody == [name |-> Undefined, boxName |-> Undefined, pin |-> Undefined,
           code |-> Undefined, files |-> <<>>, list |-> <<>>]

Response(op, req, status, body) ==
    [op |-> op, req |-> req, status |-> status, body |-> body]

\* the catch block of every handler: 500 and an error message
StoreError(op) == Response(op, NoReq, 500, NoBody)

\* the requests to POST /api/workspaces/upload that can be in flight together
CallIds == {1, 2}

\* a handler not running (pc only); of a running one: pc is the await it has passed,
\* req and files are the request, box is the file list of the document
\* findOne returned (with the pushed entries once pushed) and pushed is the
\* entries box.files.push added, which save() sends as one $push
Idle == [pc |-> "idle"]

Init ==
    /\ uploads = <<>>
    /\ workspaces = <<>>
    /\ res = Response("none", NoReq, 0, NoBody)
    /\ rooms = <<>>
    /\ prev = [op |-> "none"]
    /\ trace = <<>>
    /\ calls = [i \in CallIds |-> Idle]

(* ------------------------ POST /api/uploads --------------------------- *)

\* a submit that saves the record before it validates the file list
PostUploadSaveFirst(name, code, files, sent, ok) ==
    LET req == [NoReq EXCEPT !.code = code]
    IN  IF ~ok
        THEN /\ res' = StoreError("submitShare")
             /\ UNCHANGED <<uploads, workspaces>>
        ELSE /\ uploads' = Append(uploads, [name |-> name, code |-> code, files |-> files])
             /\ res' = IF ~sent \/ Len(files) = 0
                       THEN Response("submitShare", req, 400, NoBody)
                       ELSE Response("submitShare", req, 201, [NoBody EXCEPT !.code = code])
             /\ UNCHANGED workspaces

\* submitShare: sent tells whether the body carries a files field at all
PostUpload(name, code, files, sent, ok) ==
    LET req == [NoReq EXCEPT !.code = code]
    IN  IF ~sent \/ Len(files) = 0
        THEN /\ res' = Response("submitShare", req, 400, NoBody)
             /\ UNCHANGED <<uploads, workspaces>>
        ELSE IF ~ok
        THEN /\ res' = StoreError("submitShare")
             /\ UNCHANGED <<uploads, workspaces>>
        ELSE /\ uploads' = Append(uploads, [name |-> name, code |-> code, files |-> files])
             /\ res' = Response("submitShare", req, 201, [NoBody EXCEPT !.code = code])
             /\ UNCHANGED workspaces

(* ---------------------- GET /api/uploads/:code ------------------------ *)

\* Array.prototype.find on the files of the box the query returned
FoundFile(files, code) ==
    files[FirstIndex({k \in 1..Len(files) : files[k].code = code})]

\* a resolver that answers with the name of the box
ResolveViewUnmasked(ups, ws, code) ==
    LET u == UploadFindOne(ups, code)
        w == WorkspaceFindOneByFileCode(ws, code)
    IN  IF u # 0
        THEN [status |-> 200,
              body |-> [NoBody EXCEPT !.name = ups[u].name, !.code = ups[u].code,
                                      !.files = ups[u].files]]
        ELSE IF w # 0
        THEN [status |-> 200,
              body |-> [NoBody EXCEPT !.name = ws[w].boxName,
                                      !.files = <<FoundFile(ws[w].files, code)>>]]
        ELSE [status |-> 404, body |-> NoBody]

\* a resolver that searches the boxes before the share records
ResolveViewBoxFirst(ups, ws, code) ==
    LET u == UploadFindOne(ups, code)
        w == WorkspaceFindOneByFileCode(ws, code)
    IN  IF w # 0
        THEN [status |-> 200,
              body |-> [NoBody EXCEPT !.name = MaskedLabel,
                                      !.files = <<FoundFile(ws[w].files, code)>>]]
        ELSE IF u # 0
        THEN [status |-> 200,
              body |-> [NoBody EXCEPT !.name = ups[u].name, !.code = ups[u].code,
                                      !.files = ups[u].files]]
        ELSE [status |-> 404, body |-> NoBody]

\* a resolver that answers with every file of the box
ResolveViewWholeBox(ups, ws, code) ==
    LET u == UploadFindOne(ups, code)
        w == WorkspaceFindOneByFileCode(ws, code)
    IN  IF u # 0
        THEN [status |-> 200,
              body |-> [NoBody EXCEPT !.name = ups[u].name, !.code = ups[u].code,
                                      !.files = ups[u].files]]
        ELSE IF w # 0
        THEN [status |-> 200,
              body |-> [NoBody EXCEPT !.name = MaskedLabel, !.files = ws[w].files]]
        ELSE [status |-> 404, body |-> NoBody]

\* the search logic: share records first, box files second, else 404
ResolveView(ups, ws, code) ==
    LET u == UploadFindOne(ups, code)
        w == WorkspaceFindOneByFileCode(ws, code)
    IN  IF u # 0
        THEN [status |-> 200,
              body |-> [NoBody EXCEPT !.name = ups[u].name, !.code = ups[u].code,
                                      !.files = ups[u].files]]
        ELSE IF w # 0
        THEN [status |-> 200,
              body |-> [NoBody EXCEPT !.name = MaskedLabel,
                                      !.files = <<FoundFile(ws[w].files, code)>>]]
        ELSE [status |-> 404, body |-> NoBody]

GetUpload(code, ok) ==
    LET req == [NoReq EXCEPT !.code = code]
        view == ResolveView(uploads, workspaces, code)
    IN  /\ res' = IF ok THEN Response("resolve", req, view.status, view.body)
                        ELSE StoreError("resolve")
        /\ UNCHANGED <<uploads, workspaces>>

(* -------------------------- GET /api/uploads -------------------------- *)

\* sort({ date: -1 }): the newest document first
Reverse(s) == [i \in 1..Len(s) |-> s[Len(s) + 1 - i]]

\* the admin list: every share record, newest first
ListUploads(ok) ==
    /\ res' = IF ok THEN Response("listShares", NoReq, 200,
                                  [NoBody EXCEPT !.list = Reverse(uploads)])
                    ELSE StoreError("listShares")
    /\ UNCHANGED <<uploads, workspaces>>

(* --------------------- DELETE /api/uploads/:code ---------------------- *)

DeleteUpload(code, ok) ==
    LET req == [NoReq EXCEPT !.code = code]
        u == UploadFindOne(uploads, code)
    IN  IF ~ok
        THEN /\ res' = StoreError("deleteShare")
             /\ UNCHANGED <<uploads, workspaces>>
        ELSE IF u = 0
        THEN /\ res' = Response("deleteShare", req, 404, NoBody)
             /\ UNCHANGED <<uploads, workspaces>>
        ELSE /\ uploads' = RemoveAt(uploads, u)
             /\ res' = Response("deleteShare", req, 200, NoBody)
             /\ UNCHANGED workspaces

(* ------------------------ POST /api/box/create ------------------------ *)

\* a create that skips the lookup and replaces a box of the same name
CreateBoxOverwrite(boxName, pin, ok) ==
    LET req == [NoReq EXCEPT !.boxName = boxName, !.pin = pin]
        w == WorkspaceFindOne(workspaces, boxName)
        box == [boxName |-> boxName, pin |-> pin, files |-> <<>>]
    IN  IF ~ok \/ pin = Undefined
        THEN /\ res' = StoreError("createContainer")
             /\ UNCHANGED <<uploads, workspaces>>
        ELSE /\ workspaces' = IF w = 0 THEN Append(workspaces, box)
                              ELSE [workspaces EXCEPT ![w] = box]
             /\ res' = Response("createContainer", req, 201,
                                [NoBody EXCEPT !.boxName = boxName])
             /\ UNCHANGED uploads

\* pin and boxName are required by workspaceSchema: save() rejects a box
\* without them and the catch block answers 500
CreateBox(boxName, pin, ok) ==
    LET req == [NoReq EXCEPT !.boxName = boxName, !.pin = pin]
    IN  IF ~ok
        THEN /\ res' = StoreError("createContainer")
             /\ UNCHANGED <<uploads, workspaces>>
        ELSE IF WorkspaceFindOne(workspaces, boxName) # 0
        THEN /\ res' = Response("createContainer", req, 409, NoBody)
             /\ UNCHANGED <<uploads, workspaces>>
        ELSE IF pin = Undefined
        THEN /\ res' = StoreError("createContainer")
             /\ UNCHANGED <<uploads, workspaces>>
        ELSE /\ workspaces' = Append(workspaces,
                                     [boxName |-> boxName, pin |-> pin, files |-> <<>>])
             /\ res' = Response("createContainer", req, 201,
                                [NoBody EXCEPT !.boxName = boxName])
             /\ UNCHANGED uploads

(* ----------------- POST /api/box/create, await by await --------------- *)

\* up to the first await and its continuation's early return: findOne
\* reads the collection, then 409, or the handler goes on to build the box
CreateFind(i, boxName, pin, ok) ==
    LET req == [NoReq EXCEPT !.boxName = boxName, !.pin = pin]
    IN  /\ calls[i].pc = "idle"
        /\ IF ~ok
           THEN /\ res' = StoreError("createContainer")
                /\ UNCHANGED calls
           ELSE IF WorkspaceFindOne(workspaces, boxName) # 0
           THEN /\ res' = Response("createContainer", req, 409, NoBody)
                /\ UNCHANGED calls
           ELSE /\ calls' = [calls EXCEPT ![i] = [pc |-> "free", req |-> req]]
                /\ UNCHANGED res
        /\ UNCHANGED <<uploads, workspaces, rooms, prev, trace>>

\* await newBox.save() and the response: the schema rejects a box without a
\* pin, and the unique index on boxName rejects a second box of the name;
\* either error lands in the catch block, which answers 500
CreateSave(i, ok) ==
    LET req == calls[i].req
    IN  /\ calls[i].pc = "free"
        /\ calls' = [calls EXCEPT ![i] = Idle]
        /\ IF ~ok \/ req.pin = Undefined
                  \/ WorkspaceFindOne(workspaces, req.boxName) # 0
           THEN /\ res' = StoreError("createContainer")
                /\ UNCHANGED workspaces
           ELSE /\ workspaces' = Append(workspaces,
                       [boxName |-> req.boxName, pin |-> req.pin, files |-> <<>>])
                /\ res' = Response("createContainer", req, 201,
                                   [NoBody EXCEPT !.boxName = req.boxName])
        /\ UNCHANGED <<uploads, rooms, prev, trace>>

(* ------------------------ POST /api/box/login ------------------------- *)

\* a check that compares the pin only when the request carries one
AuthorizeIfPinGiven(ws, boxName, pin) ==
    LET w == WorkspaceFindOne(ws, boxName)
    IN  IF w = 0 THEN 404
        ELSE IF pin # Undefined /\ ws[w].pin # pin THEN 401
        ELSE 200

\* the check every box handler that takes a pin makes: 404, 401 or pass (200)
Authorize(ws, boxName, pin) ==
    LET w == WorkspaceFindOne(ws, boxName)
    IN  IF w = 0 THEN 404
        ELSE IF ws[w].pin # pin THEN 401
        ELSE 200

\* a login whose 401 answer carries the file list
LoginBoxLeaky(boxName, pin, ok) ==
    LET req == [NoReq EXCEPT !.boxName = boxName, !.pin = pin]
        w == WorkspaceFindOne(workspaces, boxName)
        auth == Authorize(workspaces, boxName, pin)
    IN  /\ res' = IF ~ok THEN StoreError("openContainer")
                  ELSE IF auth = 404 THEN Response("openContainer", req, auth, NoBody)
                  ELSE Response("openContainer", req, auth,
                                [NoBody EXCEPT !.boxName = workspaces[w].boxName,
                                               !.files = workspaces[w].files])
        /\ UNCHANGED <<uploads, workspaces>>

\* a login that lists the newest entry first
LoginBoxNewestFirst(boxName, pin, ok) ==
    LET req == [NoReq EXCEPT !.boxName = boxName, !.pin = pin]
        w == WorkspaceFindOne(workspaces, boxName)
        auth == Authorize(workspaces, boxName, pin)
    IN  /\ res' = IF ~ok THEN StoreError("openContainer")
                  ELSE IF auth # 200 THEN Response("openContainer", req, auth, NoBody)
                  ELSE Response("openContainer", req, 200,
                                [NoBody EXCEPT !.boxName = workspaces[w].boxName,
                                               !.files = [k \in 1..Len(workspaces[w].files) |->
                                                  workspaces[w].files[Len(workspaces[w].files) + 1 - k]]])
        /\ UNCHANGED <<uploads, workspaces>>

LoginBox(boxName, pin, ok) ==
    LET req == [NoReq EXCEPT !.boxName = boxName, !.pin = pin]
        w == WorkspaceFindOne(workspaces, boxName)
        auth == Authorize(workspaces, boxName, pin)
    IN  /\ res' = IF ~ok THEN StoreError("openContainer")
                  ELSE IF auth # 200 THEN Response("openContainer", req, auth, NoBody)
                  ELSE Response("openContainer", req, 200,
                                [NoBody EXCEPT !.boxName = workspaces[w].boxName,
                                               !.files = workspaces[w].files])
        /\ UNCHANGED <<uploads, workspaces>>

(* --------------------- POST /api/workspaces/upload -------------------- *)

\* files.map(f => ({ ...f, code: generateCode() })): draws[i] is the integer
\* drawn for the i-th file
FilesWithCodes(files, draws) ==
    [i \in 1..Len(files) |-> [files[i] EXCEPT !.code = generateCode(draws[i])]]

\* an upload that pushes and saves before it looks at the pin
UploadToBoxPushFirst(boxName, pin, files, draws, ok) ==
    LET req == [NoReq EXCEPT !.boxName = boxName, !.pin = pin, !.nfiles = Len(files)]
        w == WorkspaceFindOne(workspaces, boxName)
        auth == Authorize(workspaces, boxName, pin)
    IN  IF ~ok
        THEN /\ res' = StoreError("uploadToContainer")
             /\ UNCHANGED <<uploads, workspaces>>
        ELSE IF auth = 404
        THEN /\ res' = Response("uploadToContainer", req, auth, NoBody)
             /\ UNCHANGED <<uploads, workspaces>>
        ELSE /\ workspaces' = [workspaces EXCEPT
                    ![w].files = workspaces[w].files \o FilesWithCodes(files, draws)]
             /\ res' = IF auth = 401
                       THEN Response("uploadToContainer", req, auth, NoBody)
                       ELSE Response("uploadToContainer", req, 200,
                                     [NoBody EXCEPT !.files = workspaces'[w].files])
             /\ UNCHANGED uploads

UploadToBox(boxName, pin, files, draws, ok) ==
    LET req == [NoReq EXCEPT !.boxName = boxName, !.pin = pin, !.nfiles = Len(files)]
        w == WorkspaceFindOne(workspaces, boxName)
        auth == Authorize(workspaces, boxName, pin)
    IN  IF ~ok
        THEN /\ res' = StoreError("uploadToContainer")
             /\ UNCHANGED <<uploads, workspaces>>
        ELSE IF auth # 200
        THEN /\ res' = Response("uploadToContainer", req, auth, NoBody)
             /\ UNCHANGED <<uploads, workspaces>>
        ELSE /\ workspaces' = [workspaces EXCEPT
                    ![w].files = workspaces[w].files \o FilesWithCodes(files, draws)]
             /\ res' = Response("uploadToContainer", req, 200,
                                [NoBody EXCEPT !.files = workspaces'[w].files])
             /\ UNCHANGED uploads

(* ------------ POST /api/workspaces/upload, await by await ------------- *)

\* the calls after call i committed a change to the file array of boxName
\* and answered: save() increments the document's __v, so every handler
\* that holds a spliced copy of that document now holds an old version
Committed(i, boxName) ==
    [j \in CallIds |->
        IF j = i THEN Idle
        ELSE IF calls[j].pc = "spliced" /\ calls[j].req.boxName = boxName
        THEN [calls[j] EXCEPT !.stale = TRUE]
        ELSE calls[j]]

\* up to the first await and its continuation's early returns: findOne
\* reads the document, then 404, 401, or the handler goes on with its copy
UploadFind(i, boxName, pin, files, ok) ==
    LET req == [NoReq EXCEPT !.boxName = boxName, !.pin = pin, !.nfiles = Len(files)]
        w == WorkspaceFindOne(workspaces, boxName)
        auth == Authorize(workspaces, boxName, pin)
    IN  /\ calls[i].pc = "idle"
        /\ IF ~ok
           THEN /\ res' = StoreError("uploadToContainer")
                /\ UNCHANGED calls
           ELSE IF auth # 200
           THEN /\ res' = Response("uploadToContainer", req, auth, NoBody)
                /\ UNCHANGED calls
           ELSE /\ calls' = [calls EXCEPT ![i] =
                                [pc |-> "found", req |-> req, files |-> files,
                                 box |-> workspaces[w].files, pushed |-> <<>>]]
                /\ UNCHANGED res
        /\ UNCHANGED <<uploads, workspaces, rooms, prev, trace>>

\* files.map(...) and box.files.push(...filesWithCodes) on the local copy
UploadPush(i, draws) ==
    /\ calls[i].pc = "found"
    /\ calls' = [calls EXCEPT ![i].pc = "pushed",
                              ![i].pushed = FilesWithCodes(calls[i].files, draws),
                              ![i].box = calls[i].box \o
                                            FilesWithCodes(calls[i].files, draws)]
    /\ UNCHANGED <<uploads, workspaces, rooms, res, prev, trace>>

\* a save that writes the pushed entries one by one and can fail after the
\* first
UploadSavePartial(i, ok) ==
    LET w == WorkspaceFindOne(workspaces, calls[i].req.boxName)
    IN  /\ calls[i].pc = "pushed"
        /\ IF w = 0
           THEN /\ res' = StoreError("uploadToContainer")
                /\ calls' = [calls EXCEPT ![i] = Idle]
                /\ UNCHANGED workspaces
           ELSE IF ~ok
           THEN /\ res' = StoreError("uploadToContainer")
                /\ calls' = Committed(i, calls[i].req.boxName)
                /\ workspaces' = [workspaces EXCEPT
                       ![w].files = workspaces[w].files \o <<Head(calls[i].pushed)>>]
           ELSE /\ calls' = Committed(i, calls[i].req.boxName)
                /\ workspaces' = [workspaces EXCEPT
                       ![w].files = workspaces[w].files \o calls[i].pushed]
                /\ res' = Response("uploadToContainer", calls[i].req, 200,
                                   [NoBody EXCEPT !.files = calls[i].box])
        /\ UNCHANGED <<uploads, rooms, prev, trace>>

\* await box.save() and the response: Mongoose sends the pushed entries as
\* one $push on the document, which the store applies whole or not at all,
\* to the list as stored at that moment; the response carries box.files,
\* the handler's copy.  A document that is gone makes save() fail.  The
\* $push carries no version condition and increments __v.
UploadSave(i, ok) ==
    LET w == WorkspaceFindOne(workspaces, calls[i].req.boxName)
    IN  /\ calls[i].pc = "pushed"
        /\ IF ~ok \/ w = 0
           THEN /\ res' = StoreError("uploadToContainer")
                /\ calls' = [calls EXCEPT ![i] = Idle]
                /\ UNCHANGED workspaces
           ELSE /\ calls' = Committed(i, calls[i].req.boxName)
                /\ workspaces' = [workspaces EXCEPT
                       ![w].files = workspaces[w].files \o calls[i].pushed]
                /\ res' = Response("uploadToContainer", calls[i].req, 200,
                                   [NoBody EXCEPT !.files = calls[i].box])
        /\ UNCHANGED <<uploads, rooms, prev, trace>>

(* ---- POST /api/workspaces/upload through the file bucket (part_004) ---- *)

\* what the write stream of one file emits
StreamEvents == {"finish", "error"}

\* the promise uploadToFirebase returns for one file: "writing" while the
\* stream is open, "publishing" once finish fired and makePublic is awaited,
\* "resolved", "rejected" (the error listener), and "abandoned" when
\* makePublic rejects inside the finish listener, which calls neither
\* resolve nor reject
PromiseStates == {"writing", "publishing", "resolved", "rejected", "abandoned"}

\* up to the first await and the early returns after it: 500, 404, 401,
\* 400 for no files, or req.files.map(file => uploadToFirebase(file))
TransferFind(i, boxName, pin, files, ok) ==
    LET req == [NoReq EXCEPT !.boxName = boxName, !.pin = pin, !.nfiles = Len(files)]
        w == WorkspaceFindOne(workspaces, boxName)
        auth == Authorize(workspaces, boxName, pin)
    IN  /\ calls[i].pc = "idle"
        /\ IF ~ok
           THEN /\ res' = StoreError("uploadToContainer")
                /\ UNCHANGED calls
           ELSE IF auth # 200
           THEN /\ res' = Response("uploadToContainer", req, auth, NoBody)
                /\ UNCHANGED calls
           ELSE IF Len(files) = 0
           THEN /\ res' = Response("uploadToContainer", req, 400, NoBody)
                /\ UNCHANGED calls
           ELSE /\ calls' = [calls EXCEPT ![i] =
                                [pc |-> "transfer", req |-> req, files |-> files,
                                 box |-> workspaces[w].files, pushed |-> <<>>,
                                 parts |-> [k \in 1..Len(files) |-> "writing"]]]
                /\ UNCHANGED res
        /\ UNCHANGED <<uploads, workspaces, rooms, prev, trace>>

\* the stream of file k emits error (reject) or finish (makePublic starts)
StreamEvent(i, k, event) ==
    /\ calls[i].pc = "transfer"
    /\ k \in 1..Len(calls[i].parts)
    /\ calls[i].parts[k] = "writing"
    /\ calls' = [calls EXCEPT ![i].parts[k] =
                    IF event = "error" THEN "rejected" ELSE "publishing"]
    /\ UNCHANGED <<uploads, workspaces, rooms, res, prev, trace>>

\* await fileUpload.makePublic() in the finish listener: resolve follows a
\* fulfilment; a rejection leaves the listener with the promise pending
MakePublic(i, k, ok) ==
    /\ calls[i].pc = "transfer"
    /\ k \in 1..Len(calls[i].parts)
    /\ calls[i].parts[k] = "publishing"
    /\ calls' = [calls EXCEPT ![i].parts[k] = IF ok THEN "resolved" ELSE "abandoned"]
    /\ UNCHANGED <<uploads, workspaces, rooms, res, prev, trace>>

\* await Promise.all(uploadPromises): rejected by the first rejection (the
\* catch block answers 500), fulfilled when every promise is; then the codes
\* are drawn and the entries pushed on the handler's copy
TransferAll(i, draws) ==
    LET parts == calls[i].parts
    IN  /\ calls[i].pc = "transfer"
        /\ IF \E k \in 1..Len(parts) : parts[k] = "rejected"
           THEN /\ res' = StoreError("uploadToContainer")
                /\ calls' = [calls EXCEPT ![i] = Idle]
           ELSE /\ \A k \in 1..Len(parts) : parts[k] = "resolved"
                /\ calls' = [calls EXCEPT ![i] =
                                [pc |-> "pushed", req |-> calls[i].req,
                                 files |-> calls[i].files,
                                 pushed |-> FilesWithCodes(calls[i].files, draws),
                                 box |-> calls[i].box \o
                                            FilesWithCodes(calls[i].files, draws)]]
                /\ UNCHANGED res
        /\ UNCHANGED <<uploads, workspaces, rooms, prev, trace>>

(* ------------------- GET /api/workspaces/:boxName --------------------- *)

\* the refetch: the pin of the query string is compared only when there is
\* one (if (pin && box.pin !== pin)), and res.json(box) sends the whole
\* document, pin included
GetBox(boxName, pin, ok) ==
    LET req == [NoReq EXCEPT !.boxName = boxName, !.pin = pin]
        w == WorkspaceFindOne(workspaces, boxName)
    IN  /\ res' = IF ~ok THEN StoreError("getContainer")
                  ELSE IF w = 0 THEN Response("getContainer", req, 404, NoBody)
                  ELSE IF pin # Undefined /\ workspaces[w].pin # pin
                  THEN Response("getContainer", req, 401, NoBody)
                  ELSE Response("getContainer", req, 200,
                                [NoBody EXCEPT !.boxName = workspaces[w].boxName,
                                               !.pin = workspaces[w].pin,
                                               !.files = workspaces[w].files])
        /\ UNCHANGED <<uploads, workspaces>>

(* --------------- DELETE /api/admin/workspaces/:boxName ---------------- *)

\* a delete that empties the box and keeps its document
DeleteBoxKeepsName(boxName, ok) ==
    LET req == [NoReq EXCEPT !.boxName = boxName]
        w == WorkspaceFindOne(workspaces, boxName)
    IN  IF ~ok
        THEN /\ res' = StoreError("deleteContainer")
             /\ UNCHANGED <<uploads, workspaces>>
        ELSE IF w = 0
        THEN /\ res' = Response("deleteContainer", req, 404, NoBody)
             /\ UNCHANGED <<uploads, workspaces>>
        ELSE /\ workspaces' = [workspaces EXCEPT ![w].files = <<>>]
             /\ res' = Response("deleteContainer", req, 200, NoBody)
             /\ UNCHANGED uploads

DeleteBox(boxName, ok) ==
    LET req == [NoReq EXCEPT !.boxName = boxName]
        w == WorkspaceFindOne(workspaces, boxName)
    IN  IF ~ok
        THEN /\ res' = StoreError("deleteContainer")
             /\ UNCHANGED <<uploads, workspaces>>
        ELSE IF w = 0
        THEN /\ res' = Response("deleteContainer", req, 404, NoBody)
             /\ UNCHANGED <<uploads, workspaces>>
        ELSE /\ workspaces' = RemoveAt(workspaces, w)
             /\ res' = Response("deleteContainer", req, 200, NoBody)
             /\ UNCHANGED uploads

(* ------------- DELETE /api/workspaces/:boxName/files/:code ------------ *)

\* a delete that filters the list and never reports a missing file
DeleteBoxFileFilter(boxName, code, pin, ok) ==
    LET req == [NoReq EXCEPT !.boxName = boxName, !.code = code]
        w == WorkspaceFindOne(workspaces, boxName)
    IN  IF ~ok
        THEN /\ res' = StoreError("removeFile")
             /\ UNCHANGED <<uploads, workspaces>>
        ELSE IF w = 0
        THEN /\ res' = Response("removeFile", req, 404, NoBody)
             /\ UNCHANGED <<uploads, workspaces>>
        ELSE /\ workspaces' = [workspaces EXCEPT
                    ![w].files = SelectSeq(workspaces[w].files, LAMBDA f : f.code # code)]
             /\ res' = Response("removeFile", req, 200,
                                [NoBody EXCEPT !.files = workspaces'[w].files])
             /\ UNCHANGED uploads

\* a delete that also deletes the share records of the code
DeleteBoxFileAndShare(boxName, code, pin, ok) ==
    LET req == [NoReq EXCEPT !.boxName = boxName, !.code = code]
        w == WorkspaceFindOne(workspaces, boxName)
        fileIndex == FirstIndex({k \in 1..Len(workspaces[w].files) :
                                    workspaces[w].files[k].code = code})
    IN  IF ~ok
        THEN /\ res' = StoreError("removeFile")
             /\ UNCHANGED <<uploads, workspaces>>
        ELSE IF w = 0 \/ fileIndex = 0
        THEN /\ res' = Response("removeFile", req, 404, NoBody)
             /\ UNCHANGED <<uploads, workspaces>>
        ELSE /\ workspaces' = [workspaces EXCEPT
                    ![w].files = RemoveAt(workspaces[w].files, fileIndex)]
             /\ uploads' = SelectSeq(uploads, LAMBDA u : u.code # code)
             /\ res' = Response("removeFile", req, 200,
                                [NoBody EXCEPT !.files = workspaces'[w].files])

\* a removal that looks the box up by the file code alone
DeleteBoxFileAnyBox(boxName, code, pin, ok) ==
    LET req == [NoReq EXCEPT !.boxName = boxName, !.code = code]
        w == WorkspaceFindOneByFileCode(workspaces, code)
        fileIndex == FirstIndex({k \in 1..Len(workspaces[w].files) :
                                    workspaces[w].files[k].code = code})
    IN  IF ~ok
        THEN /\ res' = StoreError("removeFile")
             /\ UNCHANGED <<uploads, workspaces>>
        ELSE IF w = 0
        THEN /\ res' = Response("removeFile", req, 404, NoBody)
             /\ UNCHANGED <<uploads, workspaces>>
        ELSE /\ workspaces' = [workspaces EXCEPT
                    ![w].files = RemoveAt(workspaces[w].files, fileIndex)]
             /\ res' = Response("removeFile", req, 200,
                                [NoBody EXCEPT !.files = workspaces'[w].files])
             /\ UNCHANGED uploads

\* the pin of the body is read and never compared
DeleteBoxFile(boxName, code, pin, ok) ==
    LET req == [NoReq EXCEPT !.boxName = boxName, !.code = code]
        w == WorkspaceFindOne(workspaces, boxName)
        fileIndex == FirstIndex({k \in 1..Len(workspaces[w].files) :
                                    workspaces[w].files[k].code = code})
    IN  IF ~ok
        THEN /\ res' = StoreError("removeFile")
             /\ UNCHANGED <<uploads, workspaces>>
        ELSE IF w = 0 \/ fileIndex = 0
        THEN /\ res' = Response("removeFile", req, 404, NoBody)
             /\ UNCHANGED <<uploads, workspaces>>
        ELSE /\ workspaces' = [workspaces EXCEPT
                    ![w].files = RemoveAt(workspaces[w].files, fileIndex)]
             /\ res' = Response("removeFile", req, 200,
                                [NoBody EXCEPT !.files = workspaces'[w].files])
             /\ UNCHANGED uploads

(* ------ DELETE /api/workspaces/:boxName/files/:code, await by await ----- *)

\* up to await box.save(): findOne, the two 404 answers, and the splice on
\* the handler's copy.  box is the copy after the splice; stale tells that
\* the stored document's __v is no longer the one findOne returned.
RemoveFind(i, boxName, code, ok) ==
    LET req == [NoReq EXCEPT !.boxName = boxName, !.code = code]
        w == WorkspaceFindOne(workspaces, boxName)
        fileIndex == FirstIndex({k \in 1..Len(workspaces[w].files) :
                                    workspaces[w].files[k].code = code})
    IN  /\ calls[i].pc = "idle"
        /\ IF ~ok
           THEN /\ res' = StoreError("removeFile")
                /\ UNCHANGED calls
           ELSE IF w = 0 \/ fileIndex = 0
           THEN /\ res' = Response("removeFile", req, 404, NoBody)
                /\ UNCHANGED calls
           ELSE /\ calls' = [calls EXCEPT ![i] =
                                [pc |-> "spliced", req |-> req, files |-> <<>>,
                                 box |-> RemoveAt(workspaces[w].files, fileIndex),
                                 stale |-> FALSE]]
                /\ UNCHANGED res
        /\ UNCHANGED <<uploads, workspaces, rooms, prev, trace>>

\* a save that writes the spliced array whatever the stored version is
RemoveSaveUnversioned(i, ok) ==
    LET w == WorkspaceFindOne(workspaces, calls[i].req.boxName)
    IN  /\ calls[i].pc = "spliced"
        /\ IF ~ok \/ w = 0
           THEN /\ res' = StoreError("removeFile")
                /\ calls' = [calls EXCEPT ![i] = Idle]
                /\ UNCHANGED workspaces
           ELSE /\ calls' = Committed(i, calls[i].req.boxName)
                /\ workspaces' = [workspaces EXCEPT ![w].files = calls[i].box]
                /\ res' = Response("removeFile", calls[i].req, 200,
                                   [NoBody EXCEPT !.files = calls[i].box])
        /\ UNCHANGED <<uploads, rooms, prev, trace>>

\* await box.save() and the response: splice marks the whole array
\* modified, so Mongoose sends $set of the array with the condition that
\* __v is the version findOne returned, and increments __v; no document
\* meeting the condition makes save() throw (VersionError), which the catch
\* block answers with 500
RemoveSave(i, ok) ==
    LET w == WorkspaceFindOne(workspaces, calls[i].req.boxName)
    IN  /\ calls[i].pc = "spliced"
        /\ IF ~ok \/ w = 0 \/ calls[i].stale
           THEN /\ res' = StoreError("removeFile")
                /\ calls' = [calls EXCEPT ![i] = Idle]
                /\ UNCHANGED workspaces
           ELSE /\ calls' = Committed(i, calls[i].req.boxName)
                /\ workspaces' = [workspaces EXCEPT ![w].files = calls[i].box]
                /\ res' = Response("removeFile", calls[i].req, 200,
                                   [NoBody EXCEPT !.files = calls[i].box])
        /\ UNCHANGED <<uploads, rooms, prev, trace>>

(* ================= the room server of server.js ====================== *)
(* Rooms are keyed file lists with no pin; every upload to a room is also  *)
(* saved as a share record of the same code.                               *)

\* room keys and uploader names clients send
RoomKeys == {"k1"}
RoomUploaders == {"bob"}

\* the writes and reads of a handler at which the store can fail
StoreSteps == {"none", "find", "upload", "room"}

\* Room.findOne({ key })
RoomFindOne(rs, key) == FirstIndex({i \in 1..Len(rs) : rs[i].key = key})

\* the entries files.forEach pushes: the one code of the request on each
RoomEntries(files, code, uploader) ==
    [k \in 1..Len(files) |-> [code |-> code, uploader |-> uploader, name |-> files[k].name]]

(* ------------------------ POST /api/uploads --------------------------- *)

\* the code is always generated; draw is the integer drawn
MirrorPostUpload(name, files, sent, draw, ok) ==
    LET code == generateCode(draw)
    IN  IF ~sent \/ Len(files) = 0
        THEN /\ res' = Response("submitShare", NoReq, 400, NoBody)
             /\ UNCHANGED <<uploads, rooms>>
        ELSE IF ~ok
        THEN /\ res' = StoreError("submitShare")
             /\ UNCHANGED <<uploads, rooms>>
        ELSE /\ uploads' = Append(uploads, [name |-> name, code |-> code, files |-> files])
             /\ res' = Response("submitShare", NoReq, 201, [NoBody EXCEPT !.code = code])
             /\ UNCHANGED rooms

(* ----------------------- POST /api/rooms/create ----------------------- *)

RoomCreate(key, ok) ==
    LET req == [NoReq EXCEPT !.boxName = key]
    IN  IF ~ok \/ key = Undefined
        THEN /\ res' = StoreError("createRoom")
             /\ UNCHANGED <<uploads, rooms>>
        ELSE IF RoomFindOne(rooms, key) # 0
        THEN /\ res' = Response("createRoom", req, 400, NoBody)
             /\ UNCHANGED <<uploads, rooms>>
        ELSE /\ rooms' = Append(rooms, [key |-> key, files |-> <<>>])
             /\ res' = Response("createRoom", req, 201, [NoBody EXCEPT !.boxName = key])
             /\ UNCHANGED uploads

(* ------------------------ POST /api/rooms/open ------------------------ *)

RoomOpen(key, ok) ==
    LET req == [NoReq EXCEPT !.boxName = key]
        r == RoomFindOne(rooms, key)
    IN  /\ res' = IF ~ok THEN StoreError("openRoom")
                  ELSE IF r = 0 THEN Response("openRoom", req, 404, NoBody)
                  ELSE Response("openRoom", req, 200,
                                [NoBody EXCEPT !.boxName = key, !.files = rooms[r].files])
        /\ UNCHANGED <<uploads, rooms>>

(* --------------------- POST /api/rooms/:key/files --------------------- *)

\* an upload that deletes its share record again when the room save fails
RoomAddFilesUndo(key, uploader, files, sent, draw, fail) ==
    LET req == [NoReq EXCEPT !.boxName = key, !.nfiles = Len(files)]
        r == RoomFindOne(rooms, key)
        code == generateCode(draw)
        record == [name |-> uploader, code |-> code, files |-> files]
    IN  IF fail = "find"
        THEN /\ res' = StoreError("uploadToRoom")
             /\ UNCHANGED <<uploads, rooms>>
        ELSE IF r = 0
        THEN /\ res' = Response("uploadToRoom", req, 404, NoBody)
             /\ UNCHANGED <<uploads, rooms>>
        ELSE IF fail = "upload"
        THEN /\ res' = StoreError("uploadToRoom")
             /\ UNCHANGED <<uploads, rooms>>
        ELSE IF ~sent
        THEN /\ uploads' = Append(uploads, record)
             /\ res' = StoreError("uploadToRoom")
             /\ UNCHANGED rooms
        ELSE IF fail = "room"
        THEN /\ res' = StoreError("uploadToRoom")
             /\ UNCHANGED <<uploads, rooms>>
        ELSE /\ uploads' = Append(uploads, record)
             /\ rooms' = [rooms EXCEPT ![r].files =
                             rooms[r].files \o RoomEntries(files, code, uploader)]
             /\ res' = Response("uploadToRoom", req, 200,
                                [NoBody EXCEPT !.boxName = key, !.files = rooms'[r].files])

\* findOne, 404; then the share record is saved, the entries are pushed and
\* the room is saved.  fail names the store step that fails, if any.  A
\* body with no files field makes files.forEach throw after the share
\* record (with files []) is saved.
RoomAddFiles(key, uploader, files, sent, draw, fail) ==
    LET req == [NoReq EXCEPT !.boxName = key, !.nfiles = Len(files)]
        r == RoomFindOne(rooms, key)
        code == generateCode(draw)
        record == [name |-> uploader, code |-> code, files |-> files]
    IN  IF fail = "find"
        THEN /\ res' = StoreError("uploadToRoom")
             /\ UNCHANGED <<uploads, rooms>>
        ELSE IF r = 0
        THEN /\ res' = Response("uploadToRoom", req, 404, NoBody)
             /\ UNCHANGED <<uploads, rooms>>
        ELSE IF fail = "upload"
        THEN /\ res' = StoreError("uploadToRoom")
             /\ UNCHANGED <<uploads, rooms>>
        ELSE IF ~sent \/ fail = "room"
        THEN /\ uploads' = Append(uploads, record)
             /\ res' = StoreError("uploadToRoom")
             /\ UNCHANGED rooms
        ELSE /\ uploads' = Append(uploads, record)
             /\ rooms' = [rooms EXCEPT ![r].files =
                             rooms[r].files \o RoomEntries(files, code, uploader)]
             /\ res' = Response("uploadToRoom", req, 200,
                                [NoBody EXCEPT !.boxName = key, !.files = rooms'[r].files])

(* ------------------ DELETE /api/rooms/:key/files/:code ---------------- *)

\* findOne, 404; the entries of the code are filtered out and the room is
\* saved; then the first share record of the code is deleted
RoomDeleteFile(key, code, fail) ==
    LET req == [NoReq EXCEPT !.boxName = key, !.code = code]
        r == RoomFindOne(rooms, key)
        u == UploadFindOne(uploads, code)
        kept == SelectSeq(rooms[r].files, LAMBDA f : f.code # code)
    IN  IF fail = "find"
        THEN /\ res' = StoreError("removeRoomFile")
             /\ UNCHANGED <<uploads, rooms>>
        ELSE IF r = 0
        THEN /\ res' = Response("removeRoomFile", req, 404, NoBody)
             /\ UNCHANGED <<uploads, rooms>>
        ELSE IF fail = "room"
        THEN /\ res' = StoreError("removeRoomFile")
             /\ UNCHANGED <<uploads, rooms>>
        ELSE IF fail = "upload"
        THEN /\ rooms' = [rooms EXCEPT ![r].files = kept]
             /\ res' = StoreError("removeRoomFile")
             /\ UNCHANGED uploads
        ELSE /\ rooms' = [rooms EXCEPT ![r].files = kept]
             /\ uploads' = IF u = 0 THEN uploads ELSE RemoveAt(uploads, u)
             /\ res' = Response("removeRoomFile", req, 200, NoBody)

(* ============ the room server by reference (part_004:371-510) ========= *)
(* Room uploads are FileUpload records that name their room by password;   *)
(* a room lists the _id of its records.  In the specification of this      *)
(* server uploads holds the FileUpload collection and rooms the Room       *)
(* collection.                                                             *)

\* room passwords clients send
RoomPasswords == {"pw1", "pw2"}

\* a new ObjectId: one no record carries and no room lists (ids are only
\* compared for equality, so the least such number stands for it)
NewId ==
    LET used == {uploads[i].id : i \in 1..Len(uploads)} \cup
                UNION {{rooms[r].files[k] : k \in 1..Len(rooms[r].files)} :
                          r \in 1..Len(rooms)}
        free == (1..(Cardinality(used) + 1)) \ used
    IN  CHOOSE m \in free : \A n \in free : m <= n

\* Room.findOne({ password })
RoomFindByPassword(rs, password) ==
    FirstIndex({r \in 1..Len(rs) : rs[r].password = password})

\* POST /api/uploads: 400 on a missing field, else a record of type general
GeneralUpload(name, code, files, ok) ==
    LET req == [NoReq EXCEPT !.code = code, !.nfiles = Len(files)]
    IN  IF name = Undefined \/ Len(files) = 0 \/ code = Undefined
        THEN /\ res' = Response("submitShare", req, 400, NoBody)
             /\ UNCHANGED <<uploads, rooms>>
        ELSE IF ~ok
        THEN /\ res' = StoreError("submitShare")
             /\ UNCHANGED <<uploads, rooms>>
        ELSE /\ uploads' = Append(uploads, [id |-> NewId, code |-> code, name |-> name,
                                            files |-> files, type |-> "general",
                                            roomPassword |-> Undefined])
             /\ res' = Response("submitShare", req, 200, [NoBody EXCEPT !.code = code])
             /\ UNCHANGED rooms

\* POST /api/rooms/create: 400 on no password or a taken one
RoomCreateByPassword(password, ok) ==
    LET req == [NoReq EXCEPT !.boxName = password]
    IN  IF password = Undefined
        THEN /\ res' = Response("createRoom", req, 400, NoBody)
             /\ UNCHANGED <<uploads, rooms>>
        ELSE IF ~ok
        THEN /\ res' = StoreError("createRoom")
             /\ UNCHANGED <<uploads, rooms>>
        ELSE IF RoomFindByPassword(rooms, password) # 0
        THEN /\ res' = Response("createRoom", req, 400, NoBody)
             /\ UNCHANGED <<uploads, rooms>>
        ELSE /\ rooms' = Append(rooms, [password |-> password, files |-> <<>>])
             /\ res' = Response("createRoom", req, 200, [NoBody EXCEPT !.boxName = password])
             /\ UNCHANGED uploads

\* the records populate("files") puts in place of the ids, in list order;
\* an id no record carries yields none
Populate(ids) ==
    LET Rec(id) == SelectSeq(uploads, LAMBDA u : u.id = id)
        F[k \in 0..Len(ids)] == IF k = 0 THEN <<>> ELSE F[k - 1] \o Rec(ids[k])
    IN  F[Len(ids)]

\* POST /api/rooms/open
RoomOpenByPassword(password, ok) ==
    LET req == [NoReq EXCEPT !.boxName = password]
        r == RoomFindByPassword(rooms, password)
    IN  /\ IF password = Undefined
           THEN res' = Response("openRoom", req, 400, NoBody)
           ELSE IF ~ok
           THEN res' = StoreError("openRoom")
           ELSE IF r = 0
           THEN res' = Response("openRoom", req, 404, NoBody)
           ELSE res' = Response("openRoom", req, 200,
                                [NoBody EXCEPT !.boxName = password,
                                               !.files = Populate(rooms[r].files)])
        /\ UNCHANGED <<uploads, rooms>>

\* POST /api/rooms/upload: 400 on a missing field; roomEntry.save(); then
\* findOneAndUpdate pushes the _id on the room of the password, and
\* matches nothing, without an error, when there is no such room
RoomUpload(roomPassword, name, code, files, fail) ==
    LET req == [NoReq EXCEPT !.boxName = roomPassword, !.code = code,
                             !.nfiles = Len(files)]
        r == RoomFindByPassword(rooms, roomPassword)
        entry == [id |-> NewId, code |-> code, name |-> name, files |-> files,
                  type |-> "room", roomPassword |-> roomPassword]
    IN  IF roomPassword = Undefined \/ name = Undefined \/ Len(files) = 0
              \/ code = Undefined
        THEN /\ res' = Response("uploadToRoom", req, 400, NoBody)
             /\ UNCHANGED <<uploads, rooms>>
        ELSE IF fail = "upload"
        THEN /\ res' = StoreError("uploadToRoom")
             /\ UNCHANGED <<uploads, rooms>>
        ELSE IF fail = "room"
        THEN /\ uploads' = Append(uploads, entry)
             /\ res' = StoreError("uploadToRoom")
             /\ UNCHANGED rooms
        ELSE /\ uploads' = Append(uploads, entry)
             /\ rooms' = IF r = 0 THEN rooms
                         ELSE [rooms EXCEPT ![r].files = Append(rooms[r].files, entry.id)]
             /\ res' = Response("uploadToRoom", req, 200, [NoBody EXCEPT !.code = code])

\* DELETE /api/rooms/:password: findOne, 404; deleteMany of the records
\* that name the password; deleteOne of the room
RoomDelete(password, fail) ==
    LET req == [NoReq EXCEPT !.boxName = password]
        r == RoomFindByPassword(rooms, password)
        others == SelectSeq(uploads, LAMBDA u : u.roomPassword # password)
    IN  IF fail = "find"
        THEN /\ res' = StoreError("deleteRoom")
             /\ UNCHANGED <<uploads, rooms>>
        ELSE IF r = 0
        THEN /\ res' = Response("deleteRoom", req, 404, NoBody)
             /\ UNCHANGED <<uploads, rooms>>
        ELSE IF fail = "upload"
        THEN /\ res' = StoreError("deleteRoom")
             /\ UNCHANGED <<uploads, rooms>>
        ELSE IF fail = "room"
        THEN /\ uploads' = others
             /\ res' = StoreError("deleteRoom")
             /\ UNCHANGED rooms
        ELSE /\ uploads' = others
             /\ rooms' = RemoveAt(rooms, r)
             /\ res' = Response("deleteRoom", req, 200, NoBody)

(* ------------------------------ the system ---------------------------- *)

SuppliedPins == Pins \cup {Undefined}

\* the documents the store holds; a request that would store more than the
\* bound allows is not issued, every other request is
Docs == Len(uploads) + TotalFiles(workspaces)

SubmitShare ==
    \E name \in UploaderNames, code \in Codes, files \in FileLists \cup {<<>>},
       sent \in BOOLEAN, ok \in BOOLEAN :
       /\ sent \/ files = <<>>
       /\ (sent /\ files # <<>> /\ ok) => Docs < MaxDocs
       /\ PostUpload(name, code, files, sent, ok)

\* a submit whose body carries no code field
SubmitShareNoCode ==
    \E name \in UploaderNames, files \in FileLists, ok \in BOOLEAN :
       /\ ok => Docs < MaxDocs
       /\ PostUpload(name, Undefined, files, TRUE, ok)

Resolve == \E code \in Codes, ok \in BOOLEAN : GetUpload(code, ok)

ListShares == \E ok \in BOOLEAN : ListUploads(ok)

DeleteShare == \E code \in Codes, ok \in BOOLEAN : DeleteUpload(code, ok)

CreateContainer(names) ==
    \E boxName \in names, pin \in SuppliedPins, ok \in BOOLEAN :
       CreateBox(boxName, pin, ok)

OpenContainer(names) ==
    \E boxName \in names, pin \in SuppliedPins, ok \in BOOLEAN :
       LoginBox(boxName, pin, ok)

GetContainer(names) ==
    \E boxName \in names, pin \in SuppliedPins, ok \in BOOLEAN :
       GetBox(boxName, pin, ok)

UploadToContainer(names, lists, cap, ints) ==
    \E boxName \in names, pin \in Pins, files \in lists, ok \in BOOLEAN :
       \E draws \in [1..Len(files) -> ints] :
          /\ (ok /\ Authorize(workspaces, boxName, pin) = 200) =>
                Docs + Len(files) <= cap
          /\ UploadToBox(boxName, pin, files, draws, ok)

DeleteContainer(names) == \E boxName \in names, ok \in BOOLEAN : DeleteBox(boxName, ok)

RemoveFile(names, ints) ==
    \E boxName \in names, code \in {generateCode(n) : n \in ints}, pin \in SuppliedPins, ok \in BOOLEAN :
       DeleteBoxFile(boxName, code, pin, ok)

\* a request served with no log kept
Served(Handler) == Handler /\ UNCHANGED <<rooms, prev, trace, calls>>

\* a request served and logged: the response before it moves to prev
Logged(Handler) == Handler /\ prev' = res /\ UNCHANGED <<rooms, trace, calls>>

\* every handler, on both collections
Next ==
    \/ Served(SubmitShare)
    \/ Served(Resolve)
    \/ Served(DeleteShare)
    \/ Served(CreateContainer(BoxNames))
    \/ Served(OpenContainer(BoxNames))
    \/ Served(GetContainer(BoxNames))
    \/ Served(UploadToContainer(BoxNames, SingleFile, MaxDocs, RandomInts))
    \/ Served(DeleteContainer(BoxNames))
    \/ Served(RemoveFile(BoxNames, RandomInts))

Spec == Init /\ [][Next]_vars

\* the box handlers on one box name, with uploads of one or two files
NextBox ==
    \/ Served(CreateContainer({"box1"}))
    \/ Served(OpenContainer({"box1"}))
    \/ Served(GetContainer({"box1"}))
    \/ Served(UploadToContainer({"box1"}, FileLists, MaxBoxFiles, BoxRandomInts))
    \/ Served(DeleteContainer({"box1"}))
    \/ Served(RemoveFile({"box1"}, BoxRandomInts))

SpecBox == Init /\ [][NextBox]_vars

\* the share handlers, with submits that carry a code and submits that do not
NextShare ==
    \/ Served(SubmitShare)
    \/ Served(SubmitShareNoCode)
    \/ Served(Resolve)
    \/ Served(DeleteShare)

SpecShare == Init /\ [][NextShare]_vars

\* the same handlers with fewer codes and a smaller box
NextBatch ==
    \/ Served(CreateContainer({"box1"}))
    \/ Served(OpenContainer({"box1"}))
    \/ Served(GetContainer({"box1"}))
    \/ Served(UploadToContainer({"box1"}, FileLists, MaxBatchFiles, RandomInts))
    \/ Served(DeleteContainer({"box1"}))
    \/ Served(RemoveFile({"box1"}, RandomInts))

SpecBatch == Init /\ [][NextBatch]_vars

\* the file entries that uploads in flight are about to store
Pending(i) == IF calls[i].pc = "idle" THEN 0 ELSE Len(calls[i].files)
InFlight == Pending(1) + Pending(2)

FindStep ==
    \E i \in CallIds, pin \in Pins, files \in FileLists, ok \in BOOLEAN :
       /\ (ok /\ Authorize(workspaces, "box1", pin) = 200) =>
             Docs + InFlight + Len(files) <= MaxStepFiles
       /\ UploadFind(i, "box1", pin, files, ok)

PushStep ==
    \E i \in CallIds :
       /\ calls[i].pc = "found"
       /\ \E draws \in [1..Len(calls[i].files) -> StepRandomInts] : UploadPush(i, draws)

SaveStep == \E i \in CallIds, ok \in BOOLEAN : UploadSave(i, ok)

\* two uploads to one box, interleaved at their awaits; the box is created
\* and never deleted
NextSteps ==
    \/ Served(CreateContainer({"box1"}))
    \/ FindStep
    \/ PushStep
    \/ SaveStep

SpecSteps == Init /\ [][NextSteps]_vars

\* every handler of the share records, with the handlers of one box
NextKeep ==
    \/ Served(SubmitShare)
    \/ Served(Resolve)
    \/ Served(ListShares)
    \/ Served(DeleteShare)
    \/ Served(CreateContainer({"box1"}))
    \/ Served(OpenContainer({"box1"}))
    \/ Served(GetContainer({"box1"}))
    \/ Served(UploadToContainer({"box1"}, SingleFile, MaxDocs, RandomInts))
    \/ Served(DeleteContainer({"box1"}))
    \/ Served(RemoveFile({"box1"}, RandomInts))

SpecKeep == Init /\ [][NextKeep]_vars

\* the trace with the entries of a successful upload added
Uploaded(files, draws) ==
    trace \o [k \in 1..Len(files) |->
                [entry |-> [name |-> files[k].name, code |-> generateCode(draws[k])],
                 removed |-> FALSE]]

\* the trace with the oldest entry of the code that is still in marked
Removed(code) ==
    LET k == FirstIndex({j \in 1..Len(trace) :
                            trace[j].entry.code = code /\ ~trace[j].removed})
    IN  [trace EXCEPT ![k].removed = TRUE]

TracedUpload ==
    \E pin \in Pins, files \in FileLists, ok \in BOOLEAN :
       \E draws \in [1..Len(files) -> RandomInts] :
          /\ (ok /\ Authorize(workspaces, "box1", pin) = 200) =>
                Len(trace) + Len(files) <= MaxTrace
          /\ UploadToBox("box1", pin, files, draws, ok)
          /\ trace' = IF res'.status = 200 THEN Uploaded(files, draws) ELSE trace
          /\ UNCHANGED <<rooms, prev, calls>>

TracedRemove ==
    \E code \in Codes, pin \in SuppliedPins, ok \in BOOLEAN :
       /\ DeleteBoxFile("box1", code, pin, ok)
       /\ trace' = IF res'.status = 200 THEN Removed(code) ELSE trace
       /\ UNCHANGED <<rooms, prev, calls>>

TracedDelete ==
    \E ok \in BOOLEAN :
       /\ DeleteBox("box1", ok)
       /\ trace' = IF res'.status = 200 THEN <<>> ELSE trace
       /\ UNCHANGED <<rooms, prev, calls>>

\* one box from its creation to its deletion, its uploads and removals traced
NextTrace ==
    \/ Served(CreateContainer({"box1"}))
    \/ Served(OpenContainer({"box1"}))
    \/ TracedUpload
    \/ TracedRemove
    \/ TracedDelete

SpecTrace == Init /\ [][NextTrace]_vars

\* a request of the room server served
InRooms(Handler) == Handler /\ UNCHANGED <<workspaces, prev, trace, calls>>

\* the documents the room server holds
MirrorDocs == Len(uploads) + TotalFiles(rooms)

MirrorSubmit ==
    \E name \in UploaderNames, files \in SingleFile \cup {<<>>}, sent \in BOOLEAN,
       draw \in RandomInts, ok \in BOOLEAN :
       /\ sent \/ files = <<>>
       /\ (sent /\ files # <<>> /\ ok) => MirrorDocs < MaxMirror
       /\ MirrorPostUpload(name, files, sent, draw, ok)

CreateRoom == \E key \in RoomKeys \cup {Undefined}, ok \in BOOLEAN : RoomCreate(key, ok)

OpenRoom == \E key \in RoomKeys, ok \in BOOLEAN : RoomOpen(key, ok)

UploadToRoom ==
    \E key \in RoomKeys, uploader \in RoomUploaders, files \in FileLists \cup {<<>>},
       sent \in BOOLEAN, draw \in RandomInts, fail \in StoreSteps :
       /\ sent \/ files = <<>>
       /\ (RoomFindOne(rooms, key) # 0 /\ fail \notin {"find", "upload"}) =>
             MirrorDocs + 1 + Len(files) <= MaxMirror
       /\ RoomAddFiles(key, uploader, files, sent, draw, fail)

RemoveRoomFile ==
    \E key \in RoomKeys, code \in Codes, fail \in StoreSteps :
       RoomDeleteFile(key, code, fail)

\* every writing handler of the room server, and the open
NextMirror ==
    \/ InRooms(MirrorSubmit)
    \/ Served(DeleteShare)
    \/ InRooms(CreateRoom)
    \/ InRooms(OpenRoom)
    \/ InRooms(UploadToRoom)
    \/ InRooms(RemoveRoomFile)

SpecMirror == Init /\ [][NextMirror]_vars

CreateFindStep ==
    \E i \in CallIds, boxName \in BoxNames, pin \in SuppliedPins, ok \in BOOLEAN :
       CreateFind(i, boxName, pin, ok)

CreateSaveStep == \E i \in CallIds, ok \in BOOLEAN : CreateSave(i, ok)

\* two creates interleaved at their awaits, and deletes
NextCreate ==
    \/ CreateFindStep
    \/ CreateSaveStep
    \/ Served(DeleteContainer(BoxNames))

SpecCreate == Init /\ [][NextCreate]_vars

TransferFindStep ==
    \E i \in CallIds, pin \in Pins, files \in FileLists \cup {<<>>}, ok \in BOOLEAN :
       /\ (ok /\ Authorize(workspaces, "box1", pin) = 200) =>
             Docs + InFlight + Len(files) <= MaxStepFiles
       /\ TransferFind(i, "box1", pin, files, ok)

StreamStep ==
    \E i \in CallIds, k \in 1..MaxStepFiles, event \in StreamEvents :
       StreamEvent(i, k, event)

MakePublicStep ==
    \E i \in CallIds, k \in 1..MaxStepFiles, ok \in BOOLEAN : MakePublic(i, k, ok)

TransferAllStep ==
    \E i \in CallIds :
       /\ calls[i].pc = "transfer"
       /\ \E draws \in [1..Len(calls[i].files) -> StepRandomInts] : TransferAll(i, draws)

\* the steps a running upload can take on its own
Advance(i) ==
    \/ \E k \in 1..MaxStepFiles, event \in StreamEvents : StreamEvent(i, k, event)
    \/ \E k \in 1..MaxStepFiles, ok \in BOOLEAN : MakePublic(i, k, ok)
    \/ /\ calls[i].pc = "transfer"
       /\ \E draws \in [1..Len(calls[i].files) -> StepRandomInts] : TransferAll(i, draws)
    \/ \E ok \in BOOLEAN : UploadSave(i, ok)

\* two uploads through the bucket to one box, interleaved at their awaits
\* and at the events of their streams
NextTransfer ==
    \/ Served(CreateContainer({"box1"}))
    \/ TransferFindStep
    \/ StreamStep
    \/ MakePublicStep
    \/ TransferAllStep
    \/ SaveStep

SpecTransfer == Init /\ [][NextTransfer]_vars

RemoveFindStep ==
    \E i \in CallIds, n \in StepRandomInts, ok \in BOOLEAN :
       RemoveFind(i, "box1", generateCode(n), ok)

RemoveSaveStep == \E i \in CallIds, ok \in BOOLEAN : RemoveSave(i, ok)

\* uploads of one file
RaceFindStep ==
    \E i \in CallIds, pin \in Pins, files \in SingleFile, ok \in BOOLEAN :
       /\ (ok /\ Authorize(workspaces, "box1", pin) = 200) =>
             Docs + InFlight + Len(files) <= MaxDocs
       /\ UploadFind(i, "box1", pin, files, ok)

\* uploads to and removals from one box, interleaved at their awaits
NextRace ==
    \/ Served(CreateContainer({"box1"}))
    \/ RaceFindStep
    \/ PushStep
    \/ SaveStep
    \/ RemoveFindStep
    \/ RemoveSaveStep

SpecRace == Init /\ [][NextRace]_vars

\* the writing handlers of the boxes, on two box names
NextApart ==
    \/ Served(CreateContainer(BoxNames))
    \/ Served(UploadToContainer(BoxNames, SingleFile, MaxDocs, RandomInts))
    \/ Served(DeleteContainer(BoxNames))
    \/ Served(RemoveFile(BoxNames, RandomInts))

SpecApart == Init /\ [][NextApart]_vars

\* the requests of the room server when every store call succeeds
SoundSubmit ==
    \E name \in UploaderNames, files \in SingleFile, draw \in RandomInts :
       /\ MirrorDocs < MaxMirror
       /\ MirrorPostUpload(name, files, TRUE, draw, TRUE)

SoundDeleteShare == \E code \in Codes : DeleteUpload(code, TRUE)

SoundCreateRoom == \E key \in RoomKeys : RoomCreate(key, TRUE)

SoundUploadToRoom ==
    \E key \in RoomKeys, uploader \in RoomUploaders, files \in FileLists,
       draw \in RandomInts :
       /\ RoomFindOne(rooms, key) # 0 => MirrorDocs + 1 + Len(files) <= MaxMirror
       /\ RoomAddFiles(key, uploader, files, TRUE, draw, "none")

SoundRemoveRoomFile ==
    \E key \in RoomKeys, code \in Codes : RoomDeleteFile(key, code, "none")

\* the writing handlers of the room server, no store call failing
NextSound ==
    \/ InRooms(SoundSubmit)
    \/ Served(SoundDeleteShare)
    \/ InRooms(SoundCreateRoom)
    \/ InRooms(SoundUploadToRoom)
    \/ InRooms(SoundRemoveRoomFile)

SpecSound == Init /\ [][NextSound]_vars

\* the records and the references the room server by reference holds
RefDocs == Len(uploads) + TotalFiles(rooms)

RefSubmit ==
    \E name \in UploaderNames, code \in Codes, files \in SingleFile \cup {<<>>},
       ok \in BOOLEAN :
       /\ (files # <<>> /\ ok) => RefDocs < MaxMirror
       /\ GeneralUpload(name, code, files, ok)

RefCreateRoom ==
    \E password \in RoomPasswords \cup {Undefined}, ok \in BOOLEAN :
       RoomCreateByPassword(password, ok)

RefOpenRoom ==
    \E password \in RoomPasswords \cup {Undefined}, ok \in BOOLEAN :
       RoomOpenByPassword(password, ok)

RefUploadToRoom ==
    \E roomPassword \in RoomPasswords, name \in UploaderNames, code \in Codes,
       files \in SingleFile \cup {<<>>}, fail \in {"none", "upload", "room"} :
       /\ (files # <<>> /\ fail # "upload") => RefDocs + 2 <= MaxMirror
       /\ RoomUpload(roomPassword, name, code, files, fail)

RefDeleteRoom ==
    \E password \in RoomPasswords, fail \in StoreSteps : RoomDelete(password, fail)

\* every handler of the room server by reference
NextRefs ==
    \/ InRooms(RefSubmit)
    \/ InRooms(RefCreateRoom)
    \/ InRooms(RefOpenRoom)
    \/ InRooms(RefUploadToRoom)
    \/ InRooms(RefDeleteRoom)

SpecRefs == Init /\ [][NextRefs]_vars

\* the handlers that create, delete and read one box, every request logged
NextReuse ==
    \/ Logged(CreateContainer({"box1"}))
    \/ Logged(OpenContainer({"box1"}))
    \/ Logged(UploadToContainer({"box1"}, SingleFile, MaxDocs, RandomInts))
    \/ Logged(DeleteContainer({"box1"}))
    \/ Logged(Resolve)

SpecReuse == Init /\ [][NextReuse]_vars

(* ============================== claims ================================ *)

\* a share record of the collection carries code c
ShareHolds(c) == \E i \in 1..Len(uploads) : uploads[i].code = c

\* the boxes (positions) with a file entry that carries code c
Holders(c) == {i \in 1..Len(workspaces) : c \in FileCodes(workspaces[i].files)}

\* the file entries of box i, as a set
Entries(i) == {workspaces[i].files[k] : k \in 1..Len(workspaces[i].files)}

\* the last request was a resolve that the store served
Resolved == res.op = "resolve" /\ res.status # 500

\* the last request was a resolve of a code that only box files carry
ResolvedFromBox ==
    Resolved /\ ~ShareHolds(res.req.code) /\ Holders(res.req.code) # {}

\* C1 (as claimed): a successful submitShare(name, c, F) is followed by a
\* resolve(c) whose file list is exactly F, whatever the store held before.
C1_SubmitThenResolve ==
    [][\A name \in UploaderNames, c \in Codes, F \in FileLists :
          PostUpload(name, c, F, TRUE, TRUE)
             => ResolveView(uploads', workspaces', c).body.files = F]_vars

\* C2 (as claimed): resolving a code that only a box file carries answers with
\* the name "Shared File", and that name is never the real name of the box.
C2_NeverRealName ==
    ResolvedFromBox =>
       /\ res.body.name = MaskedLabel
       /\ \A i \in Holders(res.req.code) : res.body.name # workspaces[i].boxName

\* C2 (amended): resolving a code that only a box file carries answers with
\* the name "Shared File" whatever the box is called, and with no boxName
\* field; the answer differs from the real name of every box that is not
\* itself called "Shared File".
C2_MaskedName ==
    ResolvedFromBox =>
       /\ res.body.name = MaskedLabel
       /\ res.body.boxName = Undefined
       /\ \A i \in Holders(res.req.code) :
             workspaces[i].boxName # MaskedLabel => res.body.name # workspaces[i].boxName

C2_Witness ==
    /\ ResolvedFromBox
    /\ res.status = 200
    /\ \E i \in Holders(res.req.code) : workspaces[i].boxName = "box1"

\* C3: resolve answers with a share record of that code, verbatim, whenever
\* one exists, also when a box file carries the code; with the masked
\* one-file view when only box files carry it; and with 404 exactly when
\* neither a share record nor a box file carries it.
C3_ResolveOrder ==
    Resolved =>
       LET c == res.req.code
       IN  /\ ShareHolds(c) =>
                /\ res.status = 200
                /\ \E i \in 1..Len(uploads) :
                      /\ uploads[i].code = c
                      /\ res.body = [NoBody EXCEPT !.name = uploads[i].name,
                                                   !.code = uploads[i].code,
                                                   !.files = uploads[i].files]
           /\ (~ShareHolds(c) /\ Holders(c) # {}) =>
                /\ res.status = 200
                /\ res.body.name = MaskedLabel
                /\ res.body.code = Undefined
           /\ res.status = 404 <=> (~ShareHolds(c) /\ Holders(c) = {})

C3_Witness ==
    /\ Resolved
    /\ ShareHolds(res.req.code)
    /\ Holders(res.req.code) # {}
    /\ res.body.name \in UploaderNames

\* C4: a resolve answered from a box returns exactly one file; it carries the
\* requested code and is an entry of a box that holds the code, so no other
\* entry of that box or of another box is in the view.
C4_SingleEntry ==
    ResolvedFromBox =>
       /\ Len(res.body.files) = 1
       /\ res.body.files[1].code = res.req.code
       /\ \E i \in Holders(res.req.code) : res.body.files[1] \in Entries(i)

C4_Witness ==
    /\ ResolvedFromBox
    /\ res.status = 200
    /\ TotalFiles(workspaces) >= 2
    /\ \E i \in Holders(res.req.code) :
          \E e \in Entries(i) : e.code # res.req.code

\* the files of the box called n, <<>> when there is none
FilesOf(ws, n) ==
    IF WorkspaceFindOne(ws, n) = 0 THEN <<>> ELSE ws[WorkspaceFindOne(ws, n)].files

C6_WrongSecretNoFiles ==
    LET w == WorkspaceFindOne(workspaces, res.req.boxName)
    IN  (/\ res.op = "openContainer"
         /\ res.status # 500
         /\ w # 0
         /\ workspaces[w].pin # res.req.pin) =>
            /\ res.status = 401
            /\ res.body = NoBody

C6_Witness ==
    /\ res.op = "openContainer"
    /\ res.status = 401
    /\ res.req.pin \in Pins
    /\ FilesOf(workspaces, res.req.boxName) # <<>>

\* C7: the pin check of login and of upload answers 404 exactly when no box
\* has the name (whatever the pin), 401 exactly when the box exists and its
\* stored pin is not the supplied one, and passes otherwise; a login that
\* passes carries the current file list of the box.
C7_Authorize ==
    [][(res'.op \in {"openContainer", "uploadToContainer"} /\ res'.status # 500) =>
          LET n == res'.req.boxName
              w == WorkspaceFindOne(workspaces, n)
          IN  /\ res'.status \in {404, 401, 200}
              /\ res'.status = 404 <=> w = 0
              /\ res'.status = 401 <=> (w # 0 /\ workspaces[w].pin # res'.req.pin)
              /\ (res'.op = "openContainer" /\ res'.status = 200) =>
                    /\ res'.body.files = workspaces[w].files
                    /\ workspaces' = workspaces]_vars

C7_Witness ==
    /\ res.op = "openContainer"
    /\ res.status = 200
    /\ res.body.files # <<>>
    /\ Len(workspaces) = 2

\* C8 (as claimed): two successive two-file uploads to an empty box leave it
\* with exactly four file entries whose codes are pairwise distinct.
C8_FourDistinctCodes ==
    [][(/\ res.op = "uploadToContainer" /\ res.status = 200
        /\ res.req.nfiles = 2 /\ Len(res.body.files) = 2
        /\ res'.op = "uploadToContainer" /\ res'.status = 200
        /\ res'.req.nfiles = 2 /\ res'.req.boxName = res.req.boxName
        /\ res' # res) =>
          LET files == FilesOf(workspaces', res.req.boxName)
          IN  /\ Len(files) = 4
              /\ Cardinality(FileCodes(files)) = 4]_vars

C10_DeletedCodesGone ==
    [][(res'.op = "deleteContainer" /\ res'.status = 200) =>
          \A c \in FileCodes(FilesOf(workspaces, res'.req.boxName)) :
             ResolveView(uploads', workspaces', c).status = 404]_vars

\* C11 (as claimed): removeFile on an existing box with a pin that is not the
\* stored one, or with no pin, answers 401 and removes no file entry.
C11_RemoveChecksSecret ==
    [][\A n \in BoxNames, c \in Codes, p \in SuppliedPins :
          LET w == WorkspaceFindOne(workspaces, n)
          IN  (DeleteBoxFile(n, c, p, TRUE) /\ w # 0 /\ workspaces[w].pin # p) =>
                 /\ res'.status = 401
                 /\ workspaces' = workspaces]_vars

\* C12 (as claimed): a read of a box by name, through login or through the
\* refetch, whose supplied pin is not the stored one (or is omitted) is not
\* answered with the box: the response carries no file list and no pin.
C12_ReadNeedsSecret ==
    LET w == WorkspaceFindOne(workspaces, res.req.boxName)
    IN  (/\ res.op \in {"openContainer", "getContainer"}
         /\ res.status # 500
         /\ w # 0
         /\ workspaces[w].pin # res.req.pin) =>
            /\ res.status # 200
            /\ res.body = NoBody

\* C13: an upload to a name no box has (404) or with a pin that is not the
\* stored one (401) leaves both collections as they were; an authorized
\* upload appends one entry per incoming file, in order and with the
\* incoming names, to the list of that box and to no other, and answers 200
\* with the list as stored.
C13_UploadAuthorizes ==
    [][(res'.op = "uploadToContainer" /\ res'.status # 500) =>
          LET w == WorkspaceFindOne(workspaces, res'.req.boxName)
              old == workspaces[w].files
              new == workspaces'[w].files
          IN  IF w = 0 \/ workspaces[w].pin # res'.req.pin
              THEN /\ res'.status = IF w = 0 THEN 404 ELSE 401
                   /\ res'.body = NoBody
                   /\ workspaces' = workspaces
                   /\ uploads' = uploads
              ELSE /\ res'.status = 200
                   /\ Len(new) = Len(old) + res'.req.nfiles
                   /\ SubSeq(new, 1, Len(old)) = old
                   /\ \E F \in FileLists :
                         /\ Len(F) = res'.req.nfiles
                         /\ \A k \in 1..Len(F) : new[Len(old) + k].name = F[k].name
                   /\ res'.body.files = new
                   /\ workspaces' = [workspaces EXCEPT ![w].files = new]
                   /\ uploads' = uploads]_vars

C13_Witness ==
    /\ res.op = "uploadToContainer"
    /\ res.status = 200
    /\ res.req.nfiles = 2
    /\ Len(res.body.files) = 3

\* C14: submitShare whose body has no file list, or an empty one, answers 400
\* and leaves both collections as they were, whether or not the store is
\* up; no share record with an empty file list is ever stored.
C14_EmptySubmitRejected ==
    [][res'.op = "submitShare" =>
          /\ \A name \in UploaderNames, c \in Codes, sent \in BOOLEAN, ok \in BOOLEAN :
                PostUpload(name, c, <<>>, sent, ok) =>
                   /\ res'.status = 400
                   /\ uploads' = uploads
                   /\ workspaces' = workspaces
          /\ res'.status = 400 =>
                /\ uploads' = uploads
                /\ workspaces' = workspaces
          /\ \A i \in 1..Len(uploads') : uploads'[i].files # <<>>]_vars

C14_Witness ==
    /\ res.op = "submitShare"
    /\ res.status = 400
    /\ uploads # <<>>
    /\ workspaces # <<>>

\* C15 (as claimed): submitShare with a code that a share record already
\* carries fails and stores nothing, so no two share records of the
\* collection carry the same code.
C15_UniqueShareCode ==
    [][/\ \A name \in UploaderNames, c \in Codes, F \in FileLists :
             (PostUpload(name, c, F, TRUE, TRUE) /\ ShareHolds(c)) =>
                /\ res'.status # 201
                /\ uploads' = uploads
       /\ \A i, j \in 1..Len(uploads') :
             uploads'[i].code = uploads'[j].code => i = j]_vars

\* C16 (as claimed): a submit with files and no code answers 201 with a code
\* it generated, stores the record under that code, and a resolve of the
\* echoed code finds a record; a submit with files and a code answers with
\* that code and stores the record under it.
C16_EchoedCode ==
    [][/\ \A name \in UploaderNames, F \in FileLists :
             PostUpload(name, Undefined, F, TRUE, TRUE) =>
                /\ res'.status = 201
                /\ res'.body.code # Undefined
                /\ uploads'[Len(uploads')].code = res'.body.code
                /\ ResolveView(uploads', workspaces', res'.body.code).status = 200
       /\ \A name \in UploaderNames, c \in Codes, F \in FileLists :
             PostUpload(name, c, F, TRUE, TRUE) =>
                /\ res'.status = 201
                /\ res'.body.code = c
                /\ uploads'[Len(uploads')].code = c]_vars

\* C17 (as claimed): deleteShare of a code that a share record carries
\* answers 200, after which no share record carries the code and resolve
\* does not answer with a share record of that code; deleteShare of a code
\* no share record carries answers 404 and leaves both collections as they
\* were.
C17_DeleteShareByCode ==
    [][(res'.op = "deleteShare" /\ res'.status # 500) =>
          LET c == res'.req.code
          IN  IF ShareHolds(c)
              THEN /\ res'.status = 200
                   /\ \A i \in 1..Len(uploads') : uploads'[i].code # c
                   /\ ResolveView(uploads', workspaces', c).body.code # c
                   /\ workspaces' = workspaces
              ELSE /\ res'.status = 404
                   /\ uploads' = uploads
                   /\ workspaces' = workspaces]_vars

\* the last request was a createContainer of the name that the request
\* before it had deleted, served by the store and carrying a pin
CreatedAfterDelete ==
    /\ prev.op = "deleteContainer"
    /\ prev.status = 200
    /\ res.op = "createContainer"
    /\ res.status # 500
    /\ res.req.boxName = prev.req.boxName

\* C18: a createContainer of the name a successful deleteContainer has just
\* freed answers 201; the box of that name then has an empty file list and
\* the pin of the create, there is no second box of the name, no code
\* resolves to an entry of it, and only the new pin opens it.
C18_NameReusable ==
    CreatedAfterDelete =>
       LET n == res.req.boxName
           w == WorkspaceFindOne(workspaces, n)
       IN  /\ res.status = 201
           /\ w # 0
           /\ workspaces[w] = [boxName |-> n, pin |-> res.req.pin, files |-> <<>>]
           /\ \A j \in 1..Len(workspaces) : workspaces[j].boxName = n => j = w
           /\ \A c \in Codes : w \notin Holders(c)
           /\ \A p \in SuppliedPins :
                 Authorize(workspaces, n, p) = 200 <=> p = res.req.pin

C18_Witness ==
    /\ CreatedAfterDelete
    /\ res.status = 201
    /\ res.req.pin = "0000"
    /\ uploads = <<>>
    /\ \A c \in Codes : ResolveView(uploads, workspaces, c).status = 404

\* call i is at its save in this step
Saves(i) == calls[i].pc = "pushed" /\ calls'[i].pc = "idle"

\* C19 (as claimed): whatever the interleaving of two authorized uploads to
\* one box, a save that reports success leaves the stored list as the list
\* stored before it followed by every entry of that upload, so that no
\* entry of the other upload is lost, and the file list of its response is
\* the list as stored at that moment.
C19_UploadsSerialized ==
    [][\A i \in CallIds :
          (Saves(i) /\ res'.status = 200) =>
             LET w == WorkspaceFindOne(workspaces, calls[i].req.boxName)
             IN  /\ workspaces'[w].files = workspaces[w].files \o calls[i].pushed
                 /\ Len(calls[i].pushed) = calls[i].req.nfiles
                 /\ res'.body.files = workspaces'[w].files]_vars

\* C20: every step leaves the stored file list of a box as it was or as it
\* was followed by all the entries of one upload, one per incoming file,
\* also when the save of an upload fails.
C20_AllOrNothing ==
    [][\A w \in 1..Len(workspaces) :
          /\ Len(workspaces') >= w
          /\ \/ workspaces'[w].files = workspaces[w].files
             \/ \E i \in CallIds :
                   /\ Saves(i)
                   /\ Len(calls[i].pushed) = calls[i].req.nfiles
                   /\ workspaces'[w].files = workspaces[w].files \o calls[i].pushed]_vars

\* an upload of two files has been saved after an upload of one file
C20_Witness ==
    /\ res.op = "uploadToContainer"
    /\ res.status = 200
    /\ res.req.nfiles = 2
    /\ Len(FilesOf(workspaces, "box1")) = 3
    /\ FilesOf(workspaces, "box1")[2].name = "a.txt"
    /\ FilesOf(workspaces, "box1")[3].name = "b.txt"

\* C21 (as claimed): whatever the interleaving of the lookups and inserts of
\* two creates, no two stored boxes have the same name, and a create that
\* reaches its insert with a pin while the store is up answers 201 and
\* stores its box when the name is free, and answers 409 and stores nothing
\* when another create has taken the name since its lookup.
C21_CreateRace ==
    [][/\ \A j, k \in 1..Len(workspaces') :
             workspaces'[j].boxName = workspaces'[k].boxName => j = k
       /\ \A i \in CallIds :
             (CreateSave(i, TRUE) /\ calls[i].req.pin # Undefined) =>
                IF WorkspaceFindOne(workspaces, calls[i].req.boxName) = 0
                THEN /\ res'.status = 201
                     /\ Len(workspaces') = Len(workspaces) + 1
                ELSE /\ res'.status = 409
                     /\ workspaces' = workspaces]_vars

RECURSIVE Live(_)
Live(t) ==
    IF t = <<>> THEN <<>>
    ELSE IF Head(t).removed THEN Live(Tail(t))
    ELSE <<Head(t).entry>> \o Live(Tail(t))

\* C23: a login with the stored pin answers with the entries uploaded to the
\* box by successful uploads, in upload order, without those that
\* successful removeFile calls took out.
C23_OpenIsUploadsMinusRemovals ==
    (res.op = "openContainer" /\ res.status = 200) => res.body.files = Live(trace)

C23_Witness ==
    /\ res.op = "openContainer"
    /\ res.status = 200
    /\ Len(trace) = 3
    /\ trace[2].removed
    /\ Len(res.body.files) = 2

\* the codes the file entries of the rooms carry
RoomCodes == UNION {FileCodes(rooms[r].files) : r \in 1..Len(rooms)}

\* C24: in the room server that mirrors, an upload to an existing room whose
\* share record is saved and whose room save fails answers 500; the share
\* record stays in the collection and the rooms are as they were before the
\* request, and nothing runs the request again.
C24_PartialFailureReported ==
    [][res'.op = "uploadToRoom" =>
          \A key \in RoomKeys, uploader \in RoomUploaders, files \in FileLists,
             draw \in RandomInts :
             (RoomAddFiles(key, uploader, files, TRUE, draw, "room")
                /\ RoomFindOne(rooms, key) # 0) =>
                /\ res'.status = 500
                /\ uploads' = Append(uploads, [name |-> uploader,
                                               code |-> generateCode(draw),
                                               files |-> files])
                /\ rooms' = rooms]_vars

C24_Witness ==
    /\ res.op = "uploadToRoom"
    /\ res.status = 500
    /\ rooms # <<>>
    /\ uploads # <<>>
    /\ uploads[Len(uploads)].name \in RoomUploaders
    /\ Len(uploads[Len(uploads)].files) = 2
    /\ uploads[Len(uploads)].code \notin RoomCodes

(* C25: every request is answered: an upload that has passed its first
   await and has not yet answered always has a step left to take, so the
   handler reaches its one response whatever its store and transfer steps
   return. *)
C25_EveryRequestAnswered ==
    \A i \in CallIds : calls[i].pc # "idle" => ENABLED Advance(i)

\* the stored file list of box1
Stored == FilesOf(workspaces, "box1")

(* C26: a removal and an upload on one box, interleaved at their awaits,
   lose no update: a save that answers 200 changes the stored list, as it
   is at that moment, by its own change only -- the removal takes out the
   first entry of its code and nothing else, the upload appends its
   entries and nothing else -- so after both answered 200 the list holds
   every entry of the upload and not the removed entry. *)
C26_NoLostUpdate ==
    [][\A i \in CallIds :
          (calls[i].pc # "idle" /\ calls'[i].pc = "idle" /\ res'.status = 200) =>
             IF calls[i].pc = "spliced"
             THEN LET at == FirstIndex({k \in 1..Len(Stored) :
                                           Stored[k].code = calls[i].req.code})
                  IN  at # 0 /\ Stored' = RemoveAt(Stored, at)
             ELSE Stored' = Stored \o calls[i].pushed]_vars

\* an upload answered 200 with a copy that still lists an entry a
\* removal took out, and answered 200 for, while the upload was running
C26_Witness ==
    /\ res.op = "uploadToContainer" /\ res.status = 200
    /\ Len(res.body.files) = Len(Stored) + 1
    /\ \E k \in 1..Len(res.body.files) :
          \A m \in 1..Len(Stored) : Stored[m] # res.body.files[k]

\* the file list of the room of a key
RoomFiles(rs, key) == IF RoomFindOne(rs, key) = 0 THEN <<>> ELSE rs[RoomFindOne(rs, key)].files

(* C27 (as claimed): a removal that succeeds takes out exactly one entry,
   the first of its code in list order, and leaves every other entry in
   place and in order; an upload that succeeds leaves the entries already
   listed as a prefix of the new list.  Stated for the rooms of the room
   server. *)
C27_RemoveExactlyOne ==
    [][/\ (res'.op = "removeRoomFile" /\ res'.status = 200) =>
             LET old == RoomFiles(rooms, res'.req.boxName)
                 at == FirstIndex({k \in 1..Len(old) : old[k].code = res'.req.code})
             IN  at # 0 => RoomFiles(rooms', res'.req.boxName) = RemoveAt(old, at)
       /\ (res'.op = "uploadToRoom" /\ res'.status = 200) =>
             LET old == RoomFiles(rooms, res'.req.boxName)
                 new == RoomFiles(rooms', res'.req.boxName)
             IN  Len(new) >= Len(old) /\ SubSeq(new, 1, Len(old)) = old]_vars

\* the stored document of a box name: a sequence of one box, or none
DocOf(ws, n) == IF WorkspaceFindOne(ws, n) = 0 THEN <<>> ELSE <<ws[WorkspaceFindOne(ws, n)]>>

(* C28: createContainer, uploadToContainer, removeFile and deleteContainer
   aimed at one box leave the name, the pin and the file list of every
   other box as they were; and the pin stored under a name never changes
   while the box exists: a name gets a pin only from a createContainer that
   answers 201 on a name not taken, and loses it only to a deleteContainer
   that answers 200. *)
C28_BoxesIsolated ==
    [][/\ \A n \in BoxNames :
             n # res'.req.boxName => DocOf(workspaces', n) = DocOf(workspaces, n)
       /\ \A n \in BoxNames :
             LET old == DocOf(workspaces, n)
                 new == DocOf(workspaces', n)
             IN  /\ (old # <<>> /\ new # <<>>) => new[1].pin = old[1].pin
                 /\ (old = <<>> /\ new # <<>>) =>
                       /\ res'.op = "createContainer" /\ res'.status = 201
                       /\ new[1].pin = res'.req.pin
                 /\ (old # <<>> /\ new = <<>>) =>
                       res'.op = "deleteContainer" /\ res'.status = 200]_vars

\* a file was removed from box1 while the other box lists a file of the
\* same code
C28_Witness ==
    /\ res.op = "removeFile" /\ res.status = 200 /\ res.req.boxName = "box1"
    /\ res.req.code \in FileCodes(FilesOf(workspaces, MaskedLabel))
    /\ WorkspaceFindOne(workspaces, "box1") # 0
    /\ workspaces[WorkspaceFindOne(workspaces, "box1")].pin #
          workspaces[WorkspaceFindOne(workspaces, MaskedLabel)].pin

\* the codes of the share records
ShareCodes == {uploads[i].code : i \in 1..Len(uploads)}

(* C29 (as claimed): in the room server that saves every room upload in
   both collections, when no store call fails, after every completed
   request each code carried by a file entry of a room is the code of a
   share record; and a removal of a file from a room takes out every room
   entry of the code together with a share record of the code. *)
C29_MirrorConsistent ==
    [][/\ RoomCodes' \subseteq ShareCodes'
       /\ (res'.op = "removeRoomFile" /\ res'.status = 200) =>
             /\ res'.req.code \notin FileCodes(RoomFiles(rooms', res'.req.boxName))
             /\ res'.req.code \in ShareCodes => Len(uploads') = Len(uploads) - 1]_vars

\* the ids a room lists
Listed(r) == {rooms[r].files[k] : k \in 1..Len(rooms[r].files)}

(* C30 (as claimed): in the room server by reference, in every reachable
   state every record of type room names a room that exists and lists the
   record, and every id a room lists is the id of a record; so a room
   upload that names no existing room stores nothing. *)
C30_ReferencesHold ==
    /\ \A i \in 1..Len(uploads) :
          uploads[i].type = "room" =>
             \E r \in 1..Len(rooms) :
                rooms[r].password = uploads[i].roomPassword /\ uploads[i].id \in Listed(r)
    /\ \A r \in 1..Len(rooms) :
          Listed(r) \subseteq {uploads[i].id : i \in 1..Len(uploads)}

====
